---- MODULE Spec2Model ----
(***************************************************************************)
(* A model of news_pipeline.py: two site extractors (Skift, PhocusWire),   *)
(* the SQLite store writer, the CSV export writer, the reporter query and  *)
(* the orchestrator run_pipeline.  Text is modelled as TLA+ strings and    *)
(* every conversion (str.replace, str.split, str.strip, fromisoformat,     *)
(* strptime, strftime, SQLite datetime()) is computed character by         *)
(* character, so that formatting and parsing are not identities.           *)
(***************************************************************************)
EXTENDS Integers, Sequences, FiniteSets, TLC

VARIABLES
    pc,                  \* position of run_pipeline: the stage about to run
    run,                 \* number of the current invocation of the script
    stages,              \* stages entered so far in this run, in order
    skift_resp,          \* what requests.get returned for skift.com
    phocuswire_resp,     \* what requests.get returned for phocuswire.com
    skift_articles,      \* run_pipeline's local skift_articles
    phocuswire_articles, \* run_pipeline's local phocuswire_articles
    all_articles,        \* run_pipeline's local all_articles
    db,                  \* rows of table articles in news.db, in rowid order
    seq,                 \* sqlite_sequence value of table articles
    db_log,              \* what store_articles_to_db logged / raised
    csv,                 \* articles.csv: [exists, rows]
    csv_log,             \* what store_articles_to_csv logged
    csv_before,          \* articles.csv as this run's export found it (history)
    latest_articles,     \* run_pipeline's local latest_articles
    faults               \* sqlite3 and file errors the environment has raised

vars == <<pc, run, stages, skift_resp, phocuswire_resp, skift_articles,
          phocuswire_articles, all_articles, db, seq, db_log, csv, csv_log,
          csv_before, latest_articles, faults>>

-----------------------------------------------------------------------------
(* Bounds of the model.                                                    *)

\* invocations of the script that are explored
MaxRuns == 2
\* sqlite3 and file errors that are explored over all the runs
MaxFaults == 1
\* article blocks per page in the extractor specification
MaxBlocks == 2
\* rows of the table in the reporter specification
MaxRows == 6

-----------------------------------------------------------------------------
(* Text helpers: Python str methods used by the extractors.                *)

IsSpace(c) == c \in {" ", "\t", "\n"}

IsDigit(c) == c \in {"0", "1", "2", "3", "4", "5", "6", "7", "8", "9"}

DigitVal(c) ==
    CASE c = "0" -> 0 [] c = "1" -> 1 [] c = "2" -> 2 [] c = "3" -> 3
      [] c = "4" -> 4 [] c = "5" -> 5 [] c = "6" -> 6 [] c = "7" -> 7
      [] c = "8" -> 8 [] c = "9" -> 9

CharAt(s, i) == SubSeq(s, i, i)

AllDigits(s) == Len(s) > 0 /\ \A i \in 1..Len(s) : IsDigit(CharAt(s, i))

RECURSIVE ToInt(_)
\* int(s) for a string of decimal digits
ToInt(s) ==
    IF Len(s) = 0 THEN 0
    ELSE 10 * ToInt(SubSeq(s, 1, Len(s) - 1)) + DigitVal(CharAt(s, Len(s)))

RECURSIVE LStrip(_)
LStrip(s) ==
    IF Len(s) > 0 /\ IsSpace(CharAt(s, 1)) THEN LStrip(Tail(s)) ELSE s

RECURSIVE RStrip(_)
RStrip(s) ==
    IF Len(s) > 0 /\ IsSpace(CharAt(s, Len(s)))
    THEN RStrip(SubSeq(s, 1, Len(s) - 1)) ELSE s

\* str.strip()
strip(s) == RStrip(LStrip(s))

RECURSIVE replace_Z(_)
\* s.replace("Z", "+00:00"): every occurrence is replaced
replace_Z(s) ==
    IF Len(s) = 0 THEN ""
    ELSE (IF CharAt(s, 1) = "Z" THEN "+00:00" ELSE CharAt(s, 1))
         \o replace_Z(Tail(s))

RECURSIVE split_last(_, _)
\* s.split('|')[-1]: the text after the last '|' (all of s when there is none)
split_last(s, i) ==
    IF i = 0 THEN s
    ELSE IF CharAt(s, i) = "|" THEN SubSeq(s, i + 1, Len(s))
    ELSE split_last(s, i - 1)

StartsWith(s, p) == Len(s) >= Len(p) /\ SubSeq(s, 1, Len(p)) = p

-----------------------------------------------------------------------------
(* Calendar helpers: the datetime class.                                   *)

IsLeap(y) == (y % 4 = 0 /\ y % 100 # 0) \/ y % 400 = 0

DaysInMonth(y, m) ==
    IF m = 2 THEN (IF IsLeap(y) THEN 29 ELSE 28)
    ELSE IF m \in {4, 6, 9, 11} THEN 30 ELSE 31

\* the checks of the datetime constructor (it raises ValueError otherwise)
ValidDateTime(y, m, d, hh, mm, ss) ==
    /\ y \in 1..9999
    /\ m \in 1..12
    /\ d \in 1..DaysInMonth(y, m)
    /\ hh \in 0..23
    /\ mm \in 0..59
    /\ ss \in 0..59

\* a datetime value, or the ValueError the parser raised
DT(y, m, d, hh, mm, ss) ==
    [ok |-> TRUE, Y |-> y, M |-> m, D |-> d, h |-> hh, mi |-> mm, s |-> ss]

ValueError == [ok |-> FALSE, Y |-> 0, M |-> 0, D |-> 0, h |-> 0, mi |-> 0, s |-> 0]

MakeDT(y, m, d, hh, mm, ss) ==
    IF ValidDateTime(y, m, d, hh, mm, ss) THEN DT(y, m, d, hh, mm, ss)
    ELSE ValueError

\* "+HH:MM" or "-HH:MM", the UTC offset suffix of an ISO string
IsOffset(s) ==
    /\ Len(s) = 6
    /\ CharAt(s, 1) \in {"+", "-"}
    /\ AllDigits(SubSeq(s, 2, 3))
    /\ CharAt(s, 4) = ":"
    /\ AllDigits(SubSeq(s, 5, 6))
    /\ ToInt(SubSeq(s, 2, 3)) \in 0..23
    /\ ToInt(SubSeq(s, 5, 6)) \in 0..59

\* "YYYY-MM-DD"
IsIsoDate(s) ==
    /\ Len(s) = 10
    /\ AllDigits(SubSeq(s, 1, 4))
    /\ CharAt(s, 5) = "-"
    /\ AllDigits(SubSeq(s, 6, 7))
    /\ CharAt(s, 8) = "-"
    /\ AllDigits(SubSeq(s, 9, 10))

\* "HH:MM" or "HH:MM:SS"
IsIsoTime(s) ==
    /\ Len(s) \in {5, 8}
    /\ AllDigits(SubSeq(s, 1, 2))
    /\ CharAt(s, 3) = ":"
    /\ AllDigits(SubSeq(s, 4, 5))
    /\ Len(s) = 8 => (CharAt(s, 6) = ":" /\ AllDigits(SubSeq(s, 7, 8)))

\* datetime.fromisoformat for YYYY-MM-DD[*HH:MM[:SS][+HH:MM]], the grammar
\* every Python 3 version accepts; the UTC offset is parsed and kept only as
\* tzinfo, which strftime('%Y-%m-%d %H:%M:%S') does not print.
fromisoformat(s) ==
    LET n == Len(s)
        hasOff == n >= 16 /\ IsOffset(SubSeq(s, n - 5, n))
        body == IF hasOff THEN SubSeq(s, 1, n - 6) ELSE s
        bn == Len(body)
        date == IF bn >= 10 THEN SubSeq(body, 1, 10) ELSE ""
        time == IF bn >= 12 THEN SubSeq(body, 12, bn) ELSE ""
    IN  IF ~(bn \in {10, 16, 19}) \/ ~IsIsoDate(date) THEN ValueError
        ELSE IF bn = 10
        THEN IF hasOff THEN ValueError
             ELSE MakeDT(ToInt(SubSeq(date, 1, 4)), ToInt(SubSeq(date, 6, 7)),
                         ToInt(SubSeq(date, 9, 10)), 0, 0, 0)
        ELSE IF ~IsIsoTime(time) THEN ValueError
        ELSE MakeDT(ToInt(SubSeq(date, 1, 4)), ToInt(SubSeq(date, 6, 7)),
                    ToInt(SubSeq(date, 9, 10)),
                    ToInt(SubSeq(time, 1, 2)), ToInt(SubSeq(time, 4, 5)),
                    IF Len(time) = 8 THEN ToInt(SubSeq(time, 7, 8)) ELSE 0)

MonthNames ==
    <<"January", "February", "March", "April", "May", "June", "July",
      "August", "September", "October", "November", "December">>

\* datetime.strptime(s, "%B %d, %Y"): full month name, white space, a day of
\* one or two digits, a comma, white space, a year of four digits.
strptime(s) ==
    LET ms == {m \in 1..12 : StartsWith(s, MonthNames[m])}
    IN  IF ms = {} THEN ValueError
        ELSE
        LET m == CHOOSE x \in ms : TRUE
            r1 == SubSeq(s, Len(MonthNames[m]) + 1, Len(s))
            r2 == LStrip(r1)
            nd == IF Len(r2) >= 2 /\ AllDigits(SubSeq(r2, 1, 2)) THEN 2
                  ELSE IF Len(r2) >= 1 /\ IsDigit(CharAt(r2, 1)) THEN 1 ELSE 0
            r3 == IF nd = 0 THEN "" ELSE SubSeq(r2, nd + 1, Len(r2))
            r4 == IF Len(r3) >= 1 THEN LStrip(Tail(r3)) ELSE ""
        IN  IF \/ Len(r2) = Len(r1)
               \/ nd = 0
               \/ ~StartsWith(r3, ",")
               \/ Len(r4) = Len(r3) - 1
               \/ Len(r4) # 4
               \/ ~AllDigits(r4)
            THEN ValueError
            ELSE MakeDT(ToInt(r4), m, ToInt(SubSeq(r2, 1, nd)), 0, 0, 0)

Pad(n, width) ==
    LET t == ToString(n)
    IN  IF Len(t) >= width THEN t
        ELSE SubSeq("0000", 1, width - Len(t)) \o t

\* a bug: dt.isoformat() in place of strftime, 'T' between date and time
strftime_isoformat(dt) ==
    Pad(dt.Y, 4) \o "-" \o Pad(dt.M, 2) \o "-" \o Pad(dt.D, 2) \o "T"
    \o Pad(dt.h, 2) \o ":" \o Pad(dt.mi, 2) \o ":" \o Pad(dt.s, 2)

\* dt.strftime('%Y-%m-%d %H:%M:%S')
strftime(dt) ==
    Pad(dt.Y, 4) \o "-" \o Pad(dt.M, 2) \o "-" \o Pad(dt.D, 2) \o " "
    \o Pad(dt.h, 2) \o ":" \o Pad(dt.mi, 2) \o ":" \o Pad(dt.s, 2)

-----------------------------------------------------------------------------
(* HTTP: requests.get and Response.raise_for_status.                       *)

\* a bug: raise_for_status() is not called, an error page is parsed as a page
raise_for_status_skipped(status_code) == FALSE

\* resp.raise_for_status(): raises HTTPError for a 4xx or 5xx status
raise_for_status(status_code) == status_code >= 400 /\ status_code < 600

\* requests.get raised (ConnectionError, Timeout) or raise_for_status did
fetch_raises(resp) == resp.error # "none" \/ raise_for_status(resp.status_code)

Response(err, code, blocks) ==
    [error |-> err, status_code |-> code, blocks |-> blocks]

\* before requests.get has been called
NoResponse == Response("none", 0, <<>>)

-----------------------------------------------------------------------------
(* The Skift extractor.                                                    *)

\* item.find('a', href=True), item.find(['h2','h3']), item.find('time')
SkiftBlock(link, title, time) ==
    [link_tag |-> link, title_tag |-> title, time_tag |-> time]

ATag(href) == [found |-> TRUE, href |-> href]
NoATag == [found |-> FALSE, href |-> ""]
Heading(text) == [found |-> TRUE, text |-> text]
NoHeading == [found |-> FALSE, text |-> ""]
TimeTag(datetime) == [found |-> TRUE, has_datetime |-> TRUE, datetime |-> datetime]
TimeTagNoAttr == [found |-> TRUE, has_datetime |-> FALSE, datetime |-> ""]
NoTimeTag == [found |-> FALSE, has_datetime |-> FALSE, datetime |-> ""]

Article(url, title, published_at, source) ==
    [url |-> url, title |-> title, published_at |-> published_at,
     source |-> source]

\* the published_at of one Skift block; now is datetime.now(timezone.utc)
skift_published_at(item, now) ==
    IF item.time_tag.found /\ item.time_tag.has_datetime
    THEN LET d == fromisoformat(replace_Z(item.time_tag.datetime))
         IN  IF d.ok THEN d ELSE now
    ELSE now

\* the body of the for loop: no record (continue) or one record
skift_item(item, now) ==
    IF ~item.link_tag.found \/ ~item.title_tag.found THEN <<>>
    ELSE <<Article(item.link_tag.href,
                   strip(item.title_tag.text),
                   strftime(skift_published_at(item, now)),
                   "Skift")>>

RECURSIVE skift_loop(_, _)
\* for item in news_blocks, nows[i] being the clock at block i
skift_loop(news_blocks, nows) ==
    IF news_blocks = <<>> THEN <<>>
    ELSE skift_item(Head(news_blocks), Head(nows))
         \o skift_loop(Tail(news_blocks), Tail(nows))

\* the list scrape_skift returns
scrape_skift(resp, nows) ==
    IF fetch_raises(resp) THEN <<>> ELSE skift_loop(resp.blocks, nows)

-----------------------------------------------------------------------------
(* The PhocusWire extractor.                                               *)

\* article.select_one("a.title"), article.select_one(".author")
PhocusBlock(title, date) == [title_tag |-> title, date_tag |-> date]

TitleLink(href, text) ==
    [found |-> TRUE, has_href |-> TRUE, href |-> href, text |-> text]
TitleLinkNoHref(text) ==
    [found |-> TRUE, has_href |-> FALSE, href |-> "", text |-> text]
NoTitleLink == [found |-> FALSE, has_href |-> FALSE, href |-> "", text |-> ""]
Author(text) == [found |-> TRUE, text |-> text]
NoAuthor == [found |-> FALSE, text |-> ""]

phocuswire_raw_date(article) ==
    IF article.date_tag.found
    THEN strip(split_last(article.date_tag.text, Len(article.date_tag.text)))
    ELSE "Unknown"

\* the published_at of one PhocusWire block; now is datetime.now()
phocuswire_published_at(article, now) ==
    LET d == strptime(phocuswire_raw_date(article))
    IN  IF d.ok THEN d ELSE now

\* a bug: the record is labelled with the other extractor's source
phocuswire_item_skift_source(article, now) ==
    IF ~article.title_tag.found \/ ~article.title_tag.has_href THEN <<>>
    ELSE <<Article("https://www.phocuswire.com" \o article.title_tag.href,
                   strip(article.title_tag.text),
                   strftime(phocuswire_published_at(article, now)),
                   "Skift")>>

\* the body of the for loop: title_tag.get('href') on None raises
\* AttributeError, "https://..." + None raises TypeError; both are caught
phocuswire_item(article, now) ==
    IF ~article.title_tag.found \/ ~article.title_tag.has_href THEN <<>>
    ELSE <<Article("https://www.phocuswire.com" \o article.title_tag.href,
                   strip(article.title_tag.text),
                   strftime(phocuswire_published_at(article, now)),
                   "PhocusWire")>>

RECURSIVE phocuswire_loop_abort(_, _)
\* a bug: the try is around the for loop, so the first block that raises
\* ends the loop
phocuswire_loop_abort(articles_html, nows) ==
    IF articles_html = <<>> THEN <<>>
    ELSE IF phocuswire_item(Head(articles_html), Head(nows)) = <<>> THEN <<>>
    ELSE phocuswire_item(Head(articles_html), Head(nows))
         \o phocuswire_loop_abort(Tail(articles_html), Tail(nows))

RECURSIVE phocuswire_loop(_, _)
phocuswire_loop(articles_html, nows) ==
    IF articles_html = <<>> THEN <<>>
    ELSE phocuswire_item(Head(articles_html), Head(nows))
         \o phocuswire_loop(Tail(articles_html), Tail(nows))

\* the list get_phocuswire_articles returns
get_phocuswire_articles(resp, nows) ==
    IF fetch_raises(resp) THEN <<>> ELSE phocuswire_loop(resp.blocks, nows)

-----------------------------------------------------------------------------
(* Inputs: the clock and the pages the two sites may serve.                *)

\* readings of the clock (UTC for Skift, local time for PhocusWire)
NowTimes == {DT(2024, 6, 1, 12, 0, 0), DT(2024, 6, 1, 17, 30, 0)}

\* the clock readings of a call over n blocks
Clocks(n, now_times) == [1..n -> now_times]

SeqsUpTo(S, n) == UNION {[1..k -> S] : k \in 0..n}

SkiftLinkTags == {NoATag, ATag("/a"), ATag("/b")}
SkiftTitleTags == {NoHeading, Heading(" Alpha ")}
SkiftTimeTags ==
    {NoTimeTag, TimeTagNoAttr, TimeTag("2024-03-05T10:00:00Z"),
     TimeTag("2023-12-31T23:59:59+05:30"), TimeTag("yesterday")}

SkiftBlocks ==
    {SkiftBlock(l, t, d) : l \in SkiftLinkTags, t \in SkiftTitleTags,
                           d \in SkiftTimeTags}

PhocusTitleTags ==
    {NoTitleLink, TitleLinkNoHref("Xray"), TitleLink("/x", "Xray"),
     TitleLink("/y", " Yankee\n")}
PhocusDateTags ==
    {NoAuthor, Author("By Staff | March 5, 2024"),
     Author("January 1, 2024 "), Author("By Staff | Mar 5, 2024"),
     Author("February 30, 2024")}

PhocusBlocks ==
    {PhocusBlock(t, d) : t \in PhocusTitleTags, d \in PhocusDateTags}

\* what requests.get may give for pages made of the blocks in B
Responses(B, n) ==
    {Response("none", 200, p) : p \in SeqsUpTo(B, n)}
    \cup {Response("none", code, p) : code \in {404, 503}, p \in SeqsUpTo(B, 1)}
    \cup {Response(e, 0, <<>>) : e \in {"ConnectionError", "Timeout"}}

-----------------------------------------------------------------------------
(* The SQLite table articles.                                              *)

Row(id, a) ==
    [id |-> id, url |-> a.url, title |-> a.title,
     published_at |-> a.published_at, source |-> a.source]

Urls(table) == {table[i].url : i \in 1..Len(table)}

\* a bug: plain INSERT into a table whose url column is not UNIQUE
insert_always(st, article) ==
    [rows |-> Append(st.rows, Row(st.seq + 1, article)),
     seq |-> st.seq + 1, inserted |-> st.inserted + 1]

\* a bug: INSERT OR REPLACE, the stored row is deleted and written anew
insert_or_replace(st, article) ==
    [rows |-> Append(SelectSeq(st.rows, LAMBDA r : r.url # article.url),
                     Row(st.seq + 1, article)),
     seq |-> st.seq + 1, inserted |-> st.inserted + 1]

\* INSERT OR IGNORE INTO articles (url, title, published_at, source): the
\* UNIQUE constraint on url makes SQLite drop the row when the url is there.
\* AUTOINCREMENT draws the id from sqlite_sequence, which SQLite advances
\* for an ignored row as well.
insert_or_ignore(st, article) ==
    IF article.url \in Urls(st.rows)
    THEN [rows |-> st.rows, seq |-> st.seq + 1, inserted |-> st.inserted]
    ELSE [rows |-> Append(st.rows, Row(st.seq + 1, article)),
          seq |-> st.seq + 1, inserted |-> st.inserted + 1]

RECURSIVE insert_loop(_, _, _, _)
\* for article in articles; cursor.execute raises at row row_error (0: never)
\* and the except clause goes on with the next row
insert_loop(st, articles, i, row_error) ==
    IF i > Len(articles) THEN st
    ELSE insert_loop(IF i = row_error THEN st
                     ELSE insert_or_ignore(st, articles[i]),
                     articles, i + 1, row_error)

\* what may go wrong in store_articles_to_db while the environment may still
\* raise errors: sqlite3.connect, CREATE TABLE or conn.commit() raises (none
\* is inside a try), or the INSERT of row row_error raises (caught)
DbOutcomes(articles, may_fail) ==
    {[raises |-> FALSE, row_error |-> 0]}
    \cup (IF may_fail
          THEN {[raises |-> TRUE, row_error |-> 0]}
               \cup {[raises |-> FALSE, row_error |-> k] : k \in 1..Len(articles)}
          ELSE {})

\* store_articles_to_db: [rows, seq, inserted] after the call; a call that
\* raises before or at the commit leaves the table as it was
store_articles_to_db(table, s, articles, outcome) ==
    IF outcome.raises
    THEN [rows |-> table, seq |-> s, inserted |-> 0]
    ELSE insert_loop([rows |-> table, seq |-> s, inserted |-> 0],
                     articles, 1, outcome.row_error)

-----------------------------------------------------------------------------
(* The export file articles.csv.                                           *)

\* writer.writeheader() for fieldnames url, title, published_at, source
HeaderRow == <<"url", "title", "published_at", "source">>

\* writer.writerow(article)
CsvRow(a) == <<a.url, a.title, a.published_at, a.source>>

NoFile == [exists |-> FALSE, rows |-> <<>>]

\* what may go wrong in store_articles_to_csv: open raises ("open"), or
\* writerow raises at row `at` ("write"); both are caught and logged
CsvOutcomes(articles, may_fail) ==
    {[fails |-> "no", at |-> 0]}
    \cup (IF may_fail
          THEN {[fails |-> "open", at |-> 0]}
               \cup {[fails |-> "write", at |-> k] : k \in 1..Len(articles)}
          ELSE {})

\* a bug: open(csv_file, mode='a'), the rows of earlier runs are kept
open_a(file) == [exists |-> TRUE, rows |-> file.rows]

\* open(csv_file, mode='w'): the file exists and is empty
open_w(file) == [exists |-> TRUE, rows |-> <<>>]

\* the rows written by the for loop, up to the row that raises
written_rows(articles, outcome) ==
    [i \in 1..(IF outcome.fails = "write" THEN outcome.at - 1
               ELSE Len(articles)) |-> CsvRow(articles[i])]

\* store_articles_to_csv: the file after the call
store_articles_to_csv(file, articles, outcome) ==
    LET file_exists == file.exists
    IN  IF outcome.fails = "open" THEN file
        ELSE [open_w(file) EXCEPT !.rows =
                 @ \o (IF ~file_exists THEN <<HeaderRow>> ELSE <<>>)
                   \o written_rows(articles, outcome)]

-----------------------------------------------------------------------------
(* The reporter query.                                                     *)

\* the key of NULL: SQLite sorts NULL before every value
NullKey == <<-1, 0>>

\* SQLite datetime(text) as a sort key <<day number, second of the day>>:
\* the text forms YYYY-MM-DD, YYYY-MM-DD HH:MM and YYYY-MM-DD HH:MM:SS (with
\* ' ' or 'T') are parsed, the day number is SQLite's computeJD, and any
\* other text gives NULL.  datetime() prints this instant as text with
\* fixed-width fields, so its text order is the order of this key.
sqlite_datetime(text) ==
    LET n == Len(text)
        date == IF n >= 10 THEN SubSeq(text, 1, 10) ELSE ""
        time == IF n >= 12 THEN SubSeq(text, 12, n) ELSE ""
    IN  IF \/ n \notin {10, 16, 19}
           \/ ~IsIsoDate(date)
           \/ (n > 10 /\ (CharAt(text, 11) \notin {" ", "T"} \/ ~IsIsoTime(time)))
        THEN NullKey
        ELSE
        LET y0 == ToInt(SubSeq(date, 1, 4))
            m0 == ToInt(SubSeq(date, 6, 7))
            d == ToInt(SubSeq(date, 9, 10))
            hh == IF n > 10 THEN ToInt(SubSeq(time, 1, 2)) ELSE 0
            mm == IF n > 10 THEN ToInt(SubSeq(time, 4, 5)) ELSE 0
            ss == IF n = 19 THEN ToInt(SubSeq(time, 7, 8)) ELSE 0
            y == IF m0 <= 2 THEN y0 - 1 ELSE y0
            m == IF m0 <= 2 THEN m0 + 12 ELSE m0
            a == y \div 100
            b == 2 - a + (a \div 4)
            x1 == (36525 * (y + 4716)) \div 100
            x2 == (306001 * (m + 1)) \div 10000
            secs == hh * 3600 + mm * 60 + ss
        IN  IF m0 \notin 1..12 \/ d \notin 1..31 \/ hh > 24 \/ mm > 59 \/ ss > 59
            THEN NullKey
            ELSE <<x1 + x2 + d + b - 1524 + (secs \div 86400), secs % 86400>>

KeyLess(k1, k2) == k1[1] < k2[1] \/ (k1[1] = k2[1] /\ k1[2] < k2[2])

\* the rows of the table, each with the value of datetime(published_at)
with_sort_key(table) ==
    {[row |-> table[i], key |-> sqlite_datetime(table[i].published_at)] :
        i \in 1..Len(table)}

\* a bug: ORDER BY ... ASC
order_by_first_asc(keyed) ==
    {r \in keyed : \A o \in keyed : ~KeyLess(o.key, r.key)}

\* ORDER BY datetime(published_at) DESC: the rows that may come first
order_by_first(keyed) ==
    {r \in keyed : \A o \in keyed : ~KeyLess(r.key, o.key)}

\* SELECT title, source, published_at, url
Selected(r) == <<r.title, r.source, r.published_at, r.url>>

RECURSIVE order_by_limit(_, _)
\* every result list ORDER BY ... LIMIT k may give (SQLite leaves the order of
\* rows with equal keys open)
order_by_limit(keyed, k) ==
    IF k = 0 \/ keyed = {} THEN {<<>>}
    ELSE UNION {{<<Selected(r.row)>> \o rest :
                    rest \in order_by_limit(keyed \ {r}, k - 1)}
                : r \in order_by_first(keyed)}

\* LIMIT 5
Limit == 5

\* the lists get_latest_articles may return for the table
get_latest_articles(table) == order_by_limit(with_sort_key(table), Limit)

-----------------------------------------------------------------------------
(* The pages served to the orchestrated runs.                              *)

sAlpha == SkiftBlock(ATag("/a"), Heading("Alpha"), TimeTag("2024-03-05T10:00:00Z"))
sAlpha2 == SkiftBlock(ATag("/a"), Heading("Alpha, updated"), NoTimeTag)
sCross ==
    SkiftBlock(ATag("https://www.phocuswire.com/x"), Heading("Cross"),
               TimeTag("2024-01-01"))
sNoTitle == SkiftBlock(ATag("/b"), NoHeading, TimeTag("2024-03-05T10:00:00Z"))

pXray == PhocusBlock(TitleLink("/x", "Xray"), Author("By Staff | December 31, 2023"))
pYankee == PhocusBlock(TitleLink("/y", " Yankee "), Author("By Staff | soon"))
pNoLink == PhocusBlock(NoTitleLink, Author("By Staff | March 5, 2024"))

PipelineSkift ==
    {Response("ConnectionError", 0, <<>>),
     Response("none", 503, <<sAlpha>>),
     Response("none", 200, <<sAlpha, sNoTitle, sAlpha2>>),
     Response("none", 200, <<sCross>>)}

PipelinePhocusWire ==
    {Response("Timeout", 0, <<>>),
     Response("none", 404, <<pXray>>),
     Response("none", 200, <<pXray>>),
     Response("none", 200, <<pNoLink, pYankee>>)}

\* the clock of the orchestrated runs: run n is made on day n, at noon
PipelineNow == {DT(2024, 6, run, 12, 0, 0)}

-----------------------------------------------------------------------------
(* run_pipeline, one stage per action.                                     *)

NoDbLog == [called |-> FALSE, raises |-> FALSE, row_error |-> 0, inserted |-> 0]

Init ==
    /\ pc = "skift"
    /\ run = 1
    /\ stages = <<>>
    /\ skift_resp = NoResponse
    /\ phocuswire_resp = NoResponse
    /\ skift_articles = <<>>
    /\ phocuswire_articles = <<>>
    /\ all_articles = <<>>
    /\ db = <<>>
    /\ seq = 0
    /\ db_log = NoDbLog
    /\ csv = NoFile
    /\ csv_log = "none"
    /\ csv_before = NoFile
    /\ latest_articles = <<>>
    /\ faults = 0

\* skift_articles = scrape_skift() on one of the responses resps
scrape_skift_call(resps, now_times) ==
    \E resp \in resps : \E nows \in Clocks(Len(resp.blocks), now_times) :
        /\ skift_resp' = resp
        /\ skift_articles' = scrape_skift(resp, nows)

\* phocuswire_articles = get_phocuswire_articles()
get_phocuswire_articles_call(resps, now_times) ==
    \E resp \in resps : \E nows \in Clocks(Len(resp.blocks), now_times) :
        /\ phocuswire_resp' = resp
        /\ phocuswire_articles' = get_phocuswire_articles(resp, nows)

RunSkift ==
    /\ pc = "skift"
    /\ scrape_skift_call(PipelineSkift, PipelineNow)
    /\ stages' = Append(stages, "skift")
    /\ pc' = "phocuswire"
    /\ UNCHANGED <<run, phocuswire_resp, phocuswire_articles, all_articles, db,
                   seq, db_log, csv, csv_log, csv_before, latest_articles, faults>>

\* the second extractor, then all_articles = skift_articles + phocuswire_articles
RunPhocusWire ==
    /\ pc = "phocuswire"
    /\ get_phocuswire_articles_call(PipelinePhocusWire, PipelineNow)
    /\ all_articles' = skift_articles \o phocuswire_articles'
    /\ stages' = Append(stages, "phocuswire")
    /\ pc' = "db"
    /\ UNCHANGED <<run, skift_resp, skift_articles, db, seq, db_log, csv,
                   csv_log, csv_before, latest_articles, faults>>

\* store_articles_to_db(all_articles); an exception it lets out ends the run
StoreDb ==
    /\ pc = "db"
    /\ \E outcome \in DbOutcomes(all_articles, faults < MaxFaults) :
        LET st == store_articles_to_db(db, seq, all_articles, outcome)
        IN  /\ db' = st.rows
            /\ seq' = st.seq
            /\ db_log' = [called |-> TRUE, raises |-> outcome.raises,
                          row_error |-> outcome.row_error,
                          inserted |-> st.inserted]
            /\ pc' = IF outcome.raises THEN "crashed" ELSE "csv"
            /\ faults' = IF outcome.raises \/ outcome.row_error > 0
                          THEN faults + 1 ELSE faults
    /\ stages' = Append(stages, "db")
    /\ UNCHANGED <<run, skift_resp, phocuswire_resp, skift_articles,
                   phocuswire_articles, all_articles, csv, csv_log, csv_before,
                   latest_articles>>

\* store_articles_to_csv(all_articles)
StoreCsv ==
    /\ pc = "csv"
    /\ \E outcome \in CsvOutcomes(all_articles, faults < MaxFaults) :
        /\ csv' = store_articles_to_csv(csv, all_articles, outcome)
        /\ csv_log' = IF outcome.fails = "no" THEN "Appended" ELSE "Failed"
        /\ csv_before' = csv
        /\ faults' = IF outcome.fails = "no" THEN faults ELSE faults + 1
    /\ stages' = Append(stages, "csv")
    /\ pc' = "report"
    /\ UNCHANGED <<run, skift_resp, phocuswire_resp, skift_articles,
                   phocuswire_articles, all_articles, db, seq, db_log,
                   latest_articles>>

\* latest_articles = get_latest_articles(), then the closing log lines; the
\* query is not inside a try, so an sqlite3 error ends the run
Report ==
    /\ pc = "report"
    /\ \/ \E rows \in get_latest_articles(db) :
            /\ latest_articles' = rows
            /\ pc' = "done"
            /\ faults' = faults
       \/ /\ faults < MaxFaults
          /\ latest_articles' = <<>>
          /\ pc' = "crashed"
          /\ faults' = faults + 1
    /\ stages' = Append(stages, "report")
    /\ UNCHANGED <<run, skift_resp, phocuswire_resp, skift_articles,
                   phocuswire_articles, all_articles, db, seq, db_log, csv,
                   csv_log, csv_before>>

\* the script is invoked again: only news.db and articles.csv are kept
NextRun ==
    /\ pc \in {"done", "crashed"}
    /\ run < MaxRuns
    /\ run' = run + 1
    /\ pc' = "skift"
    /\ stages' = <<>>
    /\ skift_resp' = NoResponse
    /\ phocuswire_resp' = NoResponse
    /\ skift_articles' = <<>>
    /\ phocuswire_articles' = <<>>
    /\ all_articles' = <<>>
    /\ db_log' = NoDbLog
    /\ csv_log' = "none"
    /\ csv_before' = NoFile
    /\ latest_articles' = <<>>
    /\ UNCHANGED <<db, seq, csv, faults>>

Next == RunSkift \/ RunPhocusWire \/ StoreDb \/ StoreCsv \/ Report \/ NextRun

Spec == Init /\ [][Next]_vars

-----------------------------------------------------------------------------
(* The extractors alone, on every page of up to MaxBlocks blocks.          *)

InitExtract ==
    /\ pc = "extract"
    /\ run = 1
    /\ stages = <<>>
    /\ skift_resp = NoResponse
    /\ phocuswire_resp = NoResponse
    /\ skift_articles = <<>>
    /\ phocuswire_articles = <<>>
    /\ all_articles = <<>>
    /\ db = <<>>
    /\ seq = 0
    /\ db_log = NoDbLog
    /\ csv = NoFile
    /\ csv_log = "none"
    /\ csv_before = NoFile
    /\ latest_articles = <<>>
    /\ faults = 0

ExtractSkift ==
    /\ pc = "extract"
    /\ scrape_skift_call(Responses(SkiftBlocks, MaxBlocks), NowTimes)
    /\ pc' = "skift_done"
    /\ UNCHANGED <<run, stages, phocuswire_resp, phocuswire_articles,
                   all_articles, db, seq, db_log, csv, csv_log, csv_before,
                   latest_articles, faults>>

ExtractPhocusWire ==
    /\ pc = "extract"
    /\ get_phocuswire_articles_call(Responses(PhocusBlocks, MaxBlocks), NowTimes)
    /\ pc' = "phocuswire_done"
    /\ UNCHANGED <<run, stages, skift_resp, skift_articles, all_articles, db,
                   seq, db_log, csv, csv_log, csv_before, latest_articles, faults>>

NextExtract == ExtractSkift \/ ExtractPhocusWire

SpecExtract == InitExtract /\ [][NextExtract]_vars

-----------------------------------------------------------------------------
(* The reporter alone, on every table of up to MaxRows rows.               *)

\* published_at values as the extractors write them
ReportDates ==
    {strftime(DT(2024, 1, 1, 0, 0, 0)), strftime(DT(2024, 3, 5, 10, 0, 0)),
     strftime(DT(2023, 12, 31, 23, 59, 59))}

ReportUrls == <<"/a", "/b", "/c", "/d", "/e", "/f", "/g", "/h">>

ReportTables ==
    {[i \in 1..Len(d) |-> Row(i, Article(ReportUrls[i], "Title", d[i], "Skift"))] :
        d \in SeqsUpTo(ReportDates, MaxRows)}

InitReport ==
    /\ pc = "report"
    /\ run = 1
    /\ stages = <<"skift", "phocuswire", "db", "csv">>
    /\ skift_resp = NoResponse
    /\ phocuswire_resp = NoResponse
    /\ skift_articles = <<>>
    /\ phocuswire_articles = <<>>
    /\ all_articles = <<>>
    /\ db \in ReportTables
    /\ seq = Len(db)
    /\ db_log = NoDbLog
    /\ csv = NoFile
    /\ csv_log = "none"
    /\ csv_before = NoFile
    /\ latest_articles = <<>>
    /\ faults = 0

NextReport == Report

SpecReport == InitReport /\ [][NextReport]_vars

-----------------------------------------------------------------------------
(* Expected values of the properties below, written out independently of   *)
(* the operators above: literal texts for the dates and titles of the      *)
(* pages.                                                                  *)

\* the stage order of run_pipeline
StageOrder == <<"skift", "phocuswire", "db", "csv", "report">>

RunEnded == pc \in {"done", "crashed"}

\* the fetch failed: a network error, a timeout, or a status that is not 2xx
FetchFailed(resp) == resp.error # "none" \/ resp.status_code \notin 200..299

\* the normalized published_at of each date token that is a valid date, and
\* "" for the tokens that are not
ExpectedPublished(token) ==
    CASE token = "2024-03-05T10:00:00Z" -> "2024-03-05 10:00:00"
      [] token = "2023-12-31T23:59:59+05:30" -> "2023-12-31 23:59:59"
      [] token = "2024-01-01" -> "2024-01-01 00:00:00"
      [] token = "By Staff | March 5, 2024" -> "2024-03-05 00:00:00"
      [] token = "January 1, 2024 " -> "2024-01-01 00:00:00"
      [] token = "By Staff | December 31, 2023" -> "2023-12-31 00:00:00"
      [] OTHER -> ""

ExpectedTitle(text) ==
    CASE text = " Alpha " -> "Alpha"
      [] text = " Yankee\n" -> "Yankee"
      [] text = " Yankee " -> "Yankee"
      [] OTHER -> text

\* the clock readings the extractor specification draws from, as text
NowTexts == {"2024-06-01 12:00:00", "2024-06-01 17:30:00"}

\* YYYY-MM-DD HH:MM:SS with every field in range
IsTimestampText(s) ==
    /\ Len(s) = 19
    /\ \A i \in {1, 2, 3, 4, 6, 7, 9, 10, 12, 13, 15, 16, 18, 19} :
          SubSeq(s, i, i) \in {"0", "1", "2", "3", "4", "5", "6", "7", "8", "9"}
    /\ SubSeq(s, 5, 5) = "-" /\ SubSeq(s, 8, 8) = "-"
    /\ SubSeq(s, 11, 11) = " "
    /\ SubSeq(s, 14, 14) = ":" /\ SubSeq(s, 17, 17) = ":"
    /\ SubSeq(s, 6, 7) \in {"01", "02", "03", "04", "05", "06", "07", "08",
                            "09", "10", "11", "12"}
    /\ SubSeq(s, 9, 9) \in {"0", "1", "2", "3"} /\ SubSeq(s, 9, 10) # "00"
    /\ SubSeq(s, 12, 12) \in {"0", "1", "2"}
    /\ SubSeq(s, 15, 15) \in {"0", "1", "2", "3", "4", "5"}
    /\ SubSeq(s, 18, 18) \in {"0", "1", "2", "3", "4", "5"}

SkiftHasLinkAndTitle(b) == b.link_tag.found /\ b.title_tag.found
PhocusHasLinkAndTitle(b) == b.title_tag.found /\ b.title_tag.has_href

SkiftToken(b) ==
    IF b.time_tag.found /\ b.time_tag.has_datetime THEN b.time_tag.datetime
    ELSE ""
PhocusToken(b) == IF b.date_tag.found THEN b.date_tag.text ELSE ""

SkiftRan == pc \in {"skift_done", "phocuswire", "db", "csv", "report", "done", "crashed"}
PhocusWireRan == pc \in {"phocuswire_done", "db", "csv", "report", "done", "crashed"}

UniqueUrls(table) == Cardinality(Urls(table)) = Len(table)

\* the rows of the export file that are not the header line
DataRows(rows) ==
    IF rows # <<>> /\ rows[1] = <<"url", "title", "published_at", "source">>
    THEN Tail(rows) ELSE rows

RowsOf(articles) ==
    [i \in 1..Len(articles) |->
        <<articles[i].url, articles[i].title, articles[i].published_at,
          articles[i].source>>]

-----------------------------------------------------------------------------
(* C1                                                                      *)

\* the urls whose INSERT was executed in the store stage that ends in s'
C1_Offered ==
    {all_articles[i].url :
        i \in {j \in 1..Len(all_articles) : j # db_log'.row_error}}

C1_Step ==
    /\ UniqueUrls(db')
    /\ (pc = "db" /\ pc' = "csv") =>
          /\ Urls(db') = Urls(db) \cup C1_Offered
          /\ db_log'.inserted = Cardinality(C1_Offered \ Urls(db))
          /\ Len(db') = Len(db) + db_log'.inserted

\* C1: store writes are idempotent.  No two rows of the table ever share a
\* url, and a store stage adds exactly one row for each offered url that was
\* not stored, however often it is offered in the batch; an offer of a url
\* that is stored adds nothing to the table or to the inserted count.
C1_StoreIdempotent == [][C1_Step]_vars

\* the second run offers, twice in one batch, a url the first run stored,
\* and nothing else: the store stage inserts nothing
C1_Witness ==
    /\ run = 2 /\ pc = "csv"
    /\ db_log.row_error = 0 /\ db_log.inserted = 0
    /\ \E i, j \in 1..Len(all_articles) :
          i < j /\ all_articles[i].url = all_articles[j].url
    /\ Len(db) >= 1

-----------------------------------------------------------------------------
(* C2                                                                      *)

\* C2: after every export stage that does not fail, the export file is the
\* header row url,title,published_at,source followed by the run's records.
C2_HeaderAlways ==
    csv_log = "Appended" =>
        /\ csv.exists
        /\ csv.rows = <<<<"url", "title", "published_at", "source">>>>
                      \o RowsOf(all_articles)

-----------------------------------------------------------------------------
(* C3                                                                      *)

\* C3: the stages run in the order skift, phocuswire, db, csv, report, and
\* no failure ends the run before the report stage has been attempted.
C3_AlwaysReachesReport ==
    /\ Len(stages) <= Len(StageOrder)
    /\ stages = SubSeq(StageOrder, 1, Len(stages))
    /\ RunEnded => stages = StageOrder

-----------------------------------------------------------------------------
(* C4                                                                      *)

\* C4: when the export stage of a run has completed, the data rows of the
\* export file are exactly that run's records, one row per record offered, in
\* the order offered, whatever the file held before (nothing of an earlier
\* run is kept, no union, no append).
C4_ExportOverwrites ==
    csv_log = "Appended" =>
        /\ csv.exists
        /\ DataRows(csv.rows) = RowsOf(all_articles)

\* the second run exports records that differ from the ones the first run
\* left in the file
C4_Witness ==
    /\ run = 2 /\ csv_log = "Appended"
    /\ csv_before.exists
    /\ DataRows(csv_before.rows) # <<>>
    /\ all_articles # <<>>
    /\ \E i \in 1..Len(DataRows(csv_before.rows)) :
          \A j \in 1..Len(all_articles) :
              DataRows(csv_before.rows)[i][1] # all_articles[j].url
    /\ DataRows(csv.rows) = RowsOf(all_articles)

-----------------------------------------------------------------------------
(* C5                                                                      *)

C5_Step ==
    /\ Len(db') >= Len(db)
    /\ \A i \in 1..Len(db) : db'[i] = db[i]
    /\ \A j \in (Len(db) + 1)..Len(db') : db'[j].url \notin Urls(db)

\* C5: no update on conflict.  Every step leaves every stored row as it was
\* (id, url, title, published_at, source), deletes none, and adds no row for
\* a url that is stored.
C5_NoUpdateOnConflict == [][C5_Step]_vars

\* a record was offered whose url is stored with another title, another
\* published_at and another source, and the stored row is the older one
C5_Witness ==
    /\ pc = "csv" /\ db_log.row_error = 0
    /\ \E i \in 1..Len(all_articles) : \E k \in 1..Len(db) :
          /\ all_articles[i].url = db[k].url
          /\ all_articles[i].title # db[k].title
          /\ all_articles[i].published_at # db[k].published_at
          /\ all_articles[i].source # db[k].source

-----------------------------------------------------------------------------
(* C6                                                                      *)

C6_Stored(articles) ==
    (db_log.called /\ ~db_log.raises) =>
        \A i \in 1..Len(all_articles) :
            (i # db_log.row_error /\ \E j \in 1..Len(articles) :
                                        articles[j] = all_articles[i])
            => all_articles[i].url \in Urls(db)

-----------------------------------------------------------------------------
(* C7                                                                      *)

\* the order of the three published_at texts of the reporter specification
C7_Rank(text) ==
    CASE text = "2023-12-31 23:59:59" -> 1
      [] text = "2024-01-01 00:00:00" -> 2
      [] text = "2024-03-05 10:00:00" -> 3

C7_Returned == {latest_articles[i][4] : i \in 1..Len(latest_articles)}

\* C7: get_latest_articles returns min(5, number of rows) rows of the table,
\* each once, most recent first, and no row left out is more recent than a
\* row returned.
C7_LatestFirst ==
    pc = "done" =>
        /\ Len(latest_articles) = IF Len(db) < 5 THEN Len(db) ELSE 5
        /\ Cardinality(C7_Returned) = Len(latest_articles)
        /\ \A i \in 1..Len(latest_articles) : \E k \in 1..Len(db) :
              latest_articles[i] =
                  <<db[k].title, db[k].source, db[k].published_at, db[k].url>>
        /\ \A i, j \in 1..Len(latest_articles) :
              i < j => C7_Rank(latest_articles[i][3]) >= C7_Rank(latest_articles[j][3])
        /\ \A i \in 1..Len(latest_articles) : \A k \in 1..Len(db) :
              db[k].url \notin C7_Returned
              => C7_Rank(latest_articles[i][3]) >= C7_Rank(db[k].published_at)

\* a table of more than 5 rows that starts with the three dates of the
\* example, returned most recent first
C7_Witness ==
    /\ pc = "done" /\ Len(db) > 5 /\ Len(latest_articles) = 5
    /\ db[1].published_at = "2024-01-01 00:00:00"
    /\ db[2].published_at = "2024-03-05 10:00:00"
    /\ db[3].published_at = "2023-12-31 23:59:59"
    /\ latest_articles[1][3] = "2024-03-05 10:00:00"
    /\ latest_articles[5][3] = "2024-01-01 00:00:00"

-----------------------------------------------------------------------------
(* C8                                                                      *)

\* C8: the records an extractor emits are those of the blocks that have a
\* link and a title, one each, in page order; a block without a link or
\* without a title gives none and does not stop the loop.
C8_PartialSuccess ==
    /\ (pc = "skift_done" /\ ~FetchFailed(skift_resp)) =>
          LET kept == SelectSeq(skift_resp.blocks, SkiftHasLinkAndTitle)
          IN  /\ Len(skift_articles) = Len(kept)
              /\ \A j \in 1..Len(kept) :
                    skift_articles[j].url = kept[j].link_tag.href
    /\ (pc = "phocuswire_done" /\ ~FetchFailed(phocuswire_resp)) =>
          LET kept == SelectSeq(phocuswire_resp.blocks, PhocusHasLinkAndTitle)
          IN  /\ Len(phocuswire_articles) = Len(kept)
              /\ \A j \in 1..Len(kept) :
                    phocuswire_articles[j].url =
                        "https://www.phocuswire.com" \o kept[j].title_tag.href

\* a PhocusWire page whose first block has no a.title and whose second block
\* is complete gives the second block's record
C8_Witness ==
    /\ pc = "phocuswire_done" /\ ~FetchFailed(phocuswire_resp)
    /\ Len(phocuswire_resp.blocks) = 2
    /\ ~phocuswire_resp.blocks[1].title_tag.found
    /\ PhocusHasLinkAndTitle(phocuswire_resp.blocks[2])
    /\ Len(phocuswire_articles) = 1
    /\ phocuswire_articles[1].url = "https://www.phocuswire.com/y"

-----------------------------------------------------------------------------
(* C9                                                                      *)

\* tokens[j] is the date token of the j-th block that has a link and a title
C9_Records(articles, tokens) ==
    /\ Len(articles) = Len(tokens)
    /\ \A j \in 1..Len(articles) :
          /\ IsTimestampText(articles[j].published_at)
          /\ ExpectedPublished(tokens[j]) = "" =>
                /\ articles[j].published_at \in NowTexts
                /\ articles[j].published_at # tokens[j]

C9_Tokens(kept, skift) ==
    [j \in 1..Len(kept) |->
        IF skift THEN SkiftToken(kept[j]) ELSE PhocusToken(kept[j])]

\* C9: every record's published_at has the form YYYY-MM-DD HH:MM:SS, and a
\* block whose date is absent or does not parse still gives a record, with
\* the clock's reading and not the page's token.
C9_PublishedAtIsTimestamp ==
    /\ (pc = "skift_done" /\ ~FetchFailed(skift_resp)) =>
          C9_Records(skift_articles,
                     C9_Tokens(SelectSeq(skift_resp.blocks, SkiftHasLinkAndTitle),
                               TRUE))
    /\ (pc = "phocuswire_done" /\ ~FetchFailed(phocuswire_resp)) =>
          C9_Records(phocuswire_articles,
                     C9_Tokens(SelectSeq(phocuswire_resp.blocks,
                                         PhocusHasLinkAndTitle), FALSE))

\* a Skift block whose datetime attribute is "yesterday" gives a record
\* stamped with the clock
C9_Witness ==
    /\ pc = "skift_done" /\ Len(skift_resp.blocks) = 1
    /\ skift_resp.blocks[1].time_tag.datetime = "yesterday"
    /\ Len(skift_articles) = 1
    /\ skift_articles[1].published_at = "2024-06-01 17:30:00"

-----------------------------------------------------------------------------
(* C10                                                                     *)

C10_Sources == {"Skift", "PhocusWire"}

\* C10: a block with a link, a title and a valid date gives exactly one
\* record, with its url, its title, its date normalized and the extractor's
\* own source; every record of either extractor carries that extractor's
\* source, and every row of the table and of the export file has source
\* Skift or PhocusWire.
C10_WellFormedBlocks ==
    /\ (SkiftRan /\ ~FetchFailed(skift_resp)) =>
          LET kept == SelectSeq(skift_resp.blocks, SkiftHasLinkAndTitle)
          IN  /\ Len(skift_articles) = Len(kept)
              /\ \A j \in 1..Len(skift_articles) :
                    /\ skift_articles[j].source = "Skift"
                    /\ ExpectedPublished(SkiftToken(kept[j])) # "" =>
                          skift_articles[j] =
                              [url |-> kept[j].link_tag.href,
                               title |-> ExpectedTitle(kept[j].title_tag.text),
                               published_at |-> ExpectedPublished(SkiftToken(kept[j])),
                               source |-> "Skift"]
    /\ (PhocusWireRan /\ ~FetchFailed(phocuswire_resp)) =>
          LET kept == SelectSeq(phocuswire_resp.blocks, PhocusHasLinkAndTitle)
          IN  /\ Len(phocuswire_articles) = Len(kept)
              /\ \A j \in 1..Len(phocuswire_articles) :
                    /\ phocuswire_articles[j].source = "PhocusWire"
                    /\ ExpectedPublished(PhocusToken(kept[j])) # "" =>
                          phocuswire_articles[j] =
                              [url |-> "https://www.phocuswire.com"
                                       \o kept[j].title_tag.href,
                               title |-> ExpectedTitle(kept[j].title_tag.text),
                               published_at |-> ExpectedPublished(PhocusToken(kept[j])),
                               source |-> "PhocusWire"]
    /\ \A k \in 1..Len(db) : db[k].source \in C10_Sources
    /\ \A k \in 1..Len(DataRows(csv.rows)) : DataRows(csv.rows)[k][4] \in C10_Sources

\* a run in which both sites serve a complete block: both records are in the
\* table and in the export file
C10_Witness ==
    /\ pc = "done" /\ csv_log = "Appended"
    /\ \E j \in 1..Len(skift_articles) :
          skift_articles[j] = [url |-> "/a", title |-> "Alpha",
                               published_at |-> "2024-03-05 10:00:00",
                               source |-> "Skift"]
    /\ \E j \in 1..Len(phocuswire_articles) :
          phocuswire_articles[j] =
              [url |-> "https://www.phocuswire.com/x", title |-> "Xray",
               published_at |-> "2023-12-31 00:00:00", source |-> "PhocusWire"]
    /\ {db[k].source : k \in 1..Len(db)} = C10_Sources
    /\ {DataRows(csv.rows)[k][4] : k \in 1..Len(DataRows(csv.rows))} = C10_Sources

====
